---------------------------- MODULE Spec2Model ----------------------------
(***************************************************************************)
(* Answer synthesis and policy enforcement of BUAA_TeachingEvaluation:     *)
(* form.py (get_question_list, the three gen_*_answer strategies,          *)
(* enforce_rules, fill_form).                                              *)
(*                                                                         *)
(* Encoding.  Python strings that the code only compares are TLA+ strings; *)
(* the Chinese content labels are written in pinyin because the module is  *)
(* ASCII: "youxiu" = excellent, "lianghao" = good, "zhongdeng" = average,  *)
(* "jige" = pass, "cha" = poor.  An identifier is a tuple (<<i>> for the   *)
(* i-th question block, <<i, k>> for its k-th option block), and the empty *)
(* string "" is the empty tuple.  A score is held exactly as the number of *)
(* halves it is worth (pts = 2 * the Python float); every score of the     *)
(* model is a multiple of 0.5, which binary floating point adds exactly.   *)
(* Python's None is the record None.  Sequences are 1-based: Python's      *)
(* options[k] is options[k + 1] here and options[-1] is options[Len].      *)
(* The header block (basic_info) is copied into the payload unread and is  *)
(* left out; scores are finite numbers.                                    *)
(***************************************************************************)
EXTENDS Integers, Sequences, FiniteSets, TLC

\* ------------------------------------------------------------------ bounds
\* Longest questionnaire built from every kind of question block.
MaxEntries == 4
\* Longest questionnaire built from the two-option and no-option choice blocks.
MaxChoice == 6

\* ------------------------------------------------------- program constants
\* enforce_rules looks at choice_answer[:5] and at range(5).
Window == 5

ZhongDeng == "zhongdeng"
Passing == {"zhongdeng", "lianghao", "youxiu"}
ChoiceCode == "1"
EmptyStr == <<>>
None == [id |-> <<0>>, content |-> "None", pts |-> 0]

\* ---------------------------------------------------------------- helpers
RECURSIVE SumSeq(_)
SumSeq(s) == IF s = <<>> THEN 0 ELSE Head(s) + SumSeq(Tail(s))

\* Python's float() on the score strings the model's questionnaires carry,
\* in halves.  "4" and "4.0" are different strings and the same float.
Float(xxfz) ==
    CASE xxfz = "10"   -> 20
      [] xxfz = "7"    -> 14
      [] xxfz = "6"    -> 12
      [] xxfz = "4"    -> 8
      [] xxfz = "4.0"  -> 8
      [] xxfz = "2.5"  -> 5
      [] xxfz = "1"    -> 2
      [] xxfz = "0"    -> 0
      [] xxfz = "-0.5" -> -1

\* Python's int() on a float held in halves: truncation toward zero.
IntOfFloat(h) == IF h >= 0 THEN h \div 2 ELSE -((-h) \div 2)

\* ------------------------------------------------- the raw questionnaires
\* The kinds of question block ('tmlx', and the 'tmxxlist' in the order the
\* service sends it, as <<xxmc, xxfz>>).
RawOptions(kind) ==
    CASE kind = "likert4" -> << <<"cha", "1">>, <<"youxiu", "10">>,
                                <<"zhongdeng", "4">>, <<"lianghao", "7">> >>
      [] kind = "pair_low" -> << <<"cha", "2.5">>, <<"jige", "6">> >>
      [] kind = "pair_mid" -> << <<"zhongdeng", "4">>, <<"cha", "4.0">> >>
      [] kind = "single_neg" -> << <<"cha", "-0.5">> >>
      [] kind = "empty" -> << >>
      [] kind = "text" -> << >>
      [] kind = "text_topic" -> << <<"topic", "0">> >>

RawType(kind) == IF kind \in {"text", "text_topic"} THEN "6" ELSE ChoiceCode

AllKinds == {"likert4", "pair_low", "pair_mid", "single_neg", "empty",
             "text", "text_topic"}
CoreKinds == {"pair_low", "pair_mid", "empty"}

\* The i-th question block of a questionnaire, of the given kind.
Entry(kind, i) ==
    [tmlx |-> RawType(kind),
     tmid |-> <<i>>,
     tmxxlist |-> [k \in 1..Len(RawOptions(kind)) |->
                     [tmxxid |-> <<i, k>>,
                      xxmc |-> RawOptions(kind)[k][1],
                      xxfz |-> RawOptions(kind)[k][2]]]]

\* form_info['pjxtWjWjbReturnEntity']['wjzblist'][0]['tklist'] for a sequence
\* of kinds.
TkList(kinds) == [i \in 1..Len(kinds) |-> Entry(kinds[i], i)]

SeqsUpTo(S, n) == UNION {[1..m -> S] : m \in 0..n}

Forms == {TkList(ks) : ks \in SeqsUpTo(AllKinds, MaxEntries)
                              \cup SeqsUpTo(CoreKinds, MaxChoice)}

Methods == {"good", "random", "worst_passing", "best", "worst"}

\* ------------------------------------------------------------------ parser
\* An insertion that puts an option before the placed options of equal pts.
RECURSIVE InsertByPtsUnstable(_, _)
InsertByPtsUnstable(sorted, o) ==
    IF sorted = <<>> THEN <<o>>
    ELSE IF Head(sorted).pts > o.pts
         THEN <<Head(sorted)>> \o InsertByPtsUnstable(Tail(sorted), o)
         ELSE <<o>> \o sorted

\* list.sort(key=lambda x: x.pts, reverse=True): stable, descending.  The
\* option goes after every option already placed whose pts is >= its own.
RECURSIVE InsertByPts(_, _)
InsertByPts(sorted, o) ==
    IF sorted = <<>> THEN <<o>>
    ELSE IF Head(sorted).pts >= o.pts
         THEN <<Head(sorted)>> \o InsertByPts(Tail(sorted), o)
         ELSE <<o>> \o sorted

RECURSIVE SortByPts(_)
SortByPts(opts) ==
    IF opts = <<>> THEN <<>>
    ELSE InsertByPts(SortByPts(SubSeq(opts, 1, Len(opts) - 1)), opts[Len(opts)])

ParseOption(option) ==
    [id |-> option.tmxxid, content |-> option.xxmc, pts |-> Float(option.xxfz)]

ParseEntry(entry) ==
    [isChoice |-> entry.tmlx = ChoiceCode,
     type |-> entry.tmlx,
     id |-> entry.tmid,
     options |-> SortByPts([k \in 1..Len(entry.tmxxlist) |->
                              ParseOption(entry.tmxxlist[k])])]

get_question_list(tklist) == [i \in 1..Len(tklist) |-> ParseEntry(tklist[i])]

IsChoice(q) == q.isChoice
IsOther(q) == ~q.isChoice

\* -------------------------------------------------------------- strategies
GoodPick(q) == IF q.options # <<>> THEN q.options[1] ELSE None

gen_good_answer(choice_list) ==
    [i \in 1..Len(choice_list) |-> GoodPick(choice_list[i])]

\* random.choice(q.options[:3]) or random.choice(q.options): any of them.
RandomPicks(q) ==
    IF q.options # <<>>
    THEN IF Len(q.options) >= 3
         THEN {q.options[k] : k \in 1..3}
         ELSE {q.options[k] : k \in 1..Len(q.options)}
    ELSE {None}

\* Every sequence holding one element of sets[i] at each position i.
RECURSIVE Product(_)
Product(sets) ==
    IF sets = <<>> THEN {<<>>}
    ELSE {<<x>> \o rest : x \in Head(sets), rest \in Product(Tail(sets))}

\* The answer sets gen_random_answer can return.
gen_random_answer(choice_list) ==
    Product([i \in 1..Len(choice_list) |-> RandomPicks(choice_list[i])])

\* The lowest-scored option whatever the number of options.
WorstPick(q) == IF q.options # <<>> THEN q.options[Len(q.options)] ELSE None

WorstPassingPick(q) ==
    IF q.options # <<>>
    THEN IF Len(q.options) >= 3 THEN q.options[3] ELSE q.options[Len(q.options)]
    ELSE None

gen_worst_passing_answer(choice_list) ==
    [i \in 1..Len(choice_list) |-> WorstPassingPick(choice_list[i])]


\* ---------------------------------------------------------- enforce_rules
\* A call's outcome: the answer list as the call leaves it (it is mutated in
\* place) and the exception raised, "none" when the call returns.
Outcome(answer, err) == [answer |-> answer, err |-> err]

Answered(choice_answer) == {i \in 1..Len(choice_answer) : choice_answer[i] # None}

\* set(selected_contents)
SelectedContents(choice_answer) ==
    {choice_answer[i].content : i \in Answered(choice_answer)}

\* Rule 1 firing whenever anything is answered.
Rule1FiresAlways(choice_answer) ==
    Cardinality({choice_answer[i].content :
                    i \in {j \in 1..Len(choice_answer) : choice_answer[j] # None}}) >= 1

\* if len(set(selected_contents)) == 1
Rule1Fires(choice_answer) == Cardinality(SelectedContents(choice_answer)) = 1

\* Index of the first opt with opt.content != content, 0 when there is none.
RECURSIVE FirstDifferent(_, _, _)
FirstDifferent(options, content, k) ==
    IF k > Len(options) THEN 0
    ELSE IF options[k].content # content THEN k
    ELSE FirstDifferent(options, content, k + 1)

\* Index of the first opt with opt.content == '中等', 0 when there is none.
RECURSIVE FirstAverage(_, _)
FirstAverage(options, k) ==
    IF k > Len(options) THEN 0
    ELSE IF options[k].content = ZhongDeng THEN k
    ELSE FirstAverage(options, k + 1)

\* The loop of rule 1 from position i on.  option.content on None raises
\* AttributeError; the outer break follows the first option that is not '中等'
\* whether or not a replacement was found.
RECURSIVE Rule1Scan(_, _, _)
Rule1Scan(choice_answer, choice_list, i) ==
    IF i > Len(choice_answer) THEN Outcome(choice_answer, "none")
    ELSE IF choice_answer[i] = None THEN Outcome(choice_answer, "AttributeError")
    ELSE IF choice_answer[i].content # ZhongDeng
         THEN LET k == FirstDifferent(choice_list[i].options,
                                      choice_answer[i].content, 1)
              IN  Outcome(IF k = 0 THEN choice_answer
                          ELSE [choice_answer EXCEPT ![i] = choice_list[i].options[k]],
                          "none")
         ELSE Rule1Scan(choice_answer, choice_list, i + 1)

Rule1(choice_answer, choice_list) ==
    IF Rule1Fires(choice_answer)
    THEN Rule1Scan(choice_answer, choice_list, 1)
    ELSE Outcome(choice_answer, "none")

\* count_passing over choice_answer[:5]
CountPassing(choice_answer) ==
    Cardinality({i \in Answered(choice_answer) :
                    i <= Window /\ choice_answer[i].content \in Passing})

\* Rule 2 reading the options of the question after the one it replaces.
RECURSIVE Rule2ScanNextQuestion(_, _, _)
Rule2ScanNextQuestion(choice_answer, choice_list, i) ==
    IF i > 5 THEN [answer |-> choice_answer, err |-> "none"]
    ELSE IF i > Len(choice_answer) THEN [answer |-> choice_answer, err |-> "IndexError"]
    ELSE IF choice_answer[i] # None
         THEN LET q == choice_list[IF i < Len(choice_list) THEN i + 1 ELSE i]
                  S == {k \in 1..Len(q.options) : q.options[k].content = "zhongdeng"}
              IN  [answer |-> IF S = {} THEN choice_answer
                              ELSE [choice_answer EXCEPT
                                      ![i] = q.options[CHOOSE k \in S : \A m \in S : k <= m]],
                   err |-> "none"]
         ELSE Rule2ScanNextQuestion(choice_answer, choice_list, i + 1)

\* The loop of rule 2, for i in range(5): choice_answer[i] past the end of the
\* list raises IndexError.
RECURSIVE Rule2Scan(_, _, _)
Rule2Scan(choice_answer, choice_list, i) ==
    IF i > Window THEN Outcome(choice_answer, "none")
    ELSE IF i > Len(choice_answer) THEN Outcome(choice_answer, "IndexError")
    ELSE IF choice_answer[i] # None
         THEN LET k == FirstAverage(choice_list[i].options, 1)
              IN  Outcome(IF k = 0 THEN choice_answer
                          ELSE [choice_answer EXCEPT ![i] = choice_list[i].options[k]],
                          "none")
         ELSE Rule2Scan(choice_answer, choice_list, i + 1)

Rule2(choice_answer, choice_list) ==
    IF CountPassing(choice_answer) = 0
    THEN Rule2Scan(choice_answer, choice_list, 1)
    ELSE Outcome(choice_answer, "none")

enforce_rules(choice_answer, choice_list) ==
    LET r1 == Rule1(choice_answer, choice_list)
    IN  IF r1.err # "none" THEN r1 ELSE Rule2(r1.answer, choice_list)

\* --------------------------------------------------------------- fill_form
\* A strategy branch that also knows 'worst'.
StrategyWithWorst(method, choice_list) ==
    IF method = "good"
    THEN [err |-> "none", answers |-> {gen_good_answer(choice_list)}]
    ELSE IF method = "random"
    THEN [err |-> "none", answers |-> gen_random_answer(choice_list)]
    ELSE IF method = "worst_passing"
    THEN [err |-> "none", answers |-> {gen_worst_passing_answer(choice_list)}]
    ELSE IF method = "worst"
    THEN [err |-> "none",
          answers |-> {[i \in 1..Len(choice_list) |-> WorstPick(choice_list[i])]}]
    ELSE [err |-> "ValueError", answers |-> {<<>>}]

\* The strategy branch: the answer sets the chosen generator can return, or
\* the ValueError of the else branch.
Strategy(method, choice_list) ==
    IF method = "good"
    THEN [err |-> "none", answers |-> {gen_good_answer(choice_list)}]
    ELSE IF method = "random"
    THEN [err |-> "none", answers |-> gen_random_answer(choice_list)]
    ELSE IF method = "worst_passing"
    THEN [err |-> "none", answers |-> {gen_worst_passing_answer(choice_list)}]
    ELSE [err |-> "ValueError", answers |-> {<<>>}]

\* The total taken with math.floor instead of int().
TotalScoreFloor(choice_answer) ==
    SumSeq([i \in 1..Len(choice_answer) |->
              IF choice_answer[i] # None THEN choice_answer[i].pts ELSE 0]) \div 2

\* int(sum(q.pts for q in choice_answer if q))
TotalScore(choice_answer) ==
    IntOfFloat(SumSeq([i \in 1..Len(choice_answer) |->
                         IF choice_answer[i] # None THEN choice_answer[i].pts ELSE 0]))

ChoiceRecord(q, option) ==
    [stlx |-> q.type,
     wjstctid |-> EmptyStr,
     wjstid |-> q.id,
     xxdalist |-> << IF option # None THEN option.id ELSE EmptyStr >>]

OtherRecord(q) ==
    [stlx |-> q.type,
     wjstctid |-> IF q.options # <<>> THEN q.options[1].id ELSE EmptyStr,
     wjstid |-> q.id,
     xxdalist |-> << EmptyStr >>]

\* The records with the other questions' first.
AnswerListOthersFirst(choice_list, other_list, choice_answer) ==
    [j \in 1..Len(other_list) |->
        [stlx |-> other_list[j].type,
         wjstctid |-> IF other_list[j].options # <<>>
                      THEN other_list[j].options[1].id ELSE <<>>,
         wjstid |-> other_list[j].id,
         xxdalist |-> << <<>> >>]]
    \o [i \in 1..Len(choice_list) |->
        [stlx |-> choice_list[i].type,
         wjstctid |-> <<>>,
         wjstid |-> choice_list[i].id,
         xxdalist |-> << IF choice_answer[i] # None THEN choice_answer[i].id
                         ELSE <<>> >>]]

\* answer_list: the choice questions' records, then the other questions'.
AnswerList(choice_list, other_list, choice_answer) ==
    [i \in 1..Len(choice_list) |-> ChoiceRecord(choice_list[i], choice_answer[i])]
    \o [j \in 1..Len(other_list) |-> OtherRecord(other_list[j])]

\* The part of ret that depends on the answers (the rest is the header,
\* copied from basic_info).
Payload(choice_list, other_list, choice_answer, total_score) ==
    [pjdf |-> total_score,
     pjxxlist |-> AnswerList(choice_list, other_list, choice_answer)]

NoPayload == [pjdf |-> 0, pjxxlist |-> <<>>]

\* ------------------------------------------------------------------- state
VARIABLES
    pc,             \* "start", "returned" (fill_form returned ret), "raised",
                    \* "twice" (enforce_rules was applied to its own result)
    form_info,      \* the tklist of the questionnaire
    method,         \* the strategy name passed to fill_form
    question_list,  \* get_question_list(form_info)
    selected,       \* choice_answer as the strategy returned it
    choice_answer,  \* choice_answer as the last enforce_rules call left it
    once,           \* choice_answer after the first enforce_rules call
    raised,         \* the exception of the last call, "none" if it returned
    ret             \* the payload fill_form returned

vars == <<pc, form_info, method, question_list, selected, choice_answer, once,
          raised, ret>>

ChoiceList == SelectSeq(question_list, IsChoice)
OtherList == SelectSeq(question_list, IsOther)

Init ==
    /\ pc = "start"
    /\ form_info \in Forms
    /\ method \in Methods
    /\ question_list = <<>>
    /\ selected = <<>>
    /\ choice_answer = <<>>
    /\ once = <<>>
    /\ raised = "none"
    /\ ret = NoPayload

\* One call of fill_form(form_info, method).
FillForm ==
    /\ pc = "start"
    /\ LET ql == get_question_list(form_info)
           choice_list == SelectSeq(ql, IsChoice)
           other_list == SelectSeq(ql, IsOther)
           s == Strategy(method, choice_list)
       IN  /\ question_list' = ql
           /\ \E answer \in s.answers :
                 LET e == enforce_rules(answer, choice_list)
                 IN  /\ selected' = answer
                     /\ IF s.err # "none"
                        THEN /\ raised' = s.err
                             /\ choice_answer' = answer
                             /\ ret' = NoPayload
                             /\ pc' = "raised"
                        ELSE IF e.err # "none"
                        THEN /\ raised' = e.err
                             /\ choice_answer' = e.answer
                             /\ ret' = NoPayload
                             /\ pc' = "raised"
                        ELSE /\ raised' = "none"
                             /\ choice_answer' = e.answer
                             /\ ret' = Payload(choice_list, other_list, e.answer,
                                               TotalScore(e.answer))
                             /\ pc' = "returned"
    /\ UNCHANGED <<form_info, method, once>>

\* enforce_rules applied a second time, to the answer set the first
\* application left (the double application the idempotence property is about).
EnforceAgain ==
    /\ pc = "returned"
    /\ LET e == enforce_rules(choice_answer, ChoiceList)
       IN  /\ once' = choice_answer
           /\ choice_answer' = e.answer
           /\ raised' = e.err
    /\ pc' = "twice"
    /\ UNCHANGED <<form_info, method, question_list, selected, ret>>

Next == FillForm \/ EnforceAgain

Spec == Init /\ [][Next]_vars

\* ------------------------------------------------------------- properties
\* fill_form has been called and enforce_rules ran on the strategy's output.
Enforced == pc \in {"returned", "raised"} /\ raised # "ValueError"

MinOf(a, b) == IF a < b THEN a ELSE b

\* The answered positions among the first 5 (fewer if fewer exist).
InWindow(answer) == {i \in Answered(answer) : i <= MinOf(Window, Len(answer))}

PassingInWindow(answer) == {i \in InWindow(answer) : answer[i].content \in Passing}

C2_AntiUniformity ==
    ( /\ pc = "returned"
      /\ Cardinality(Answered(selected)) >= 2
      /\ Cardinality(SelectedContents(selected)) = 1
      /\ \E i \in Answered(selected) : \E k \in 1..Len(ChoiceList[i].options) :
            ChoiceList[i].options[k].content \notin SelectedContents(selected) )
    => Cardinality(SelectedContents(choice_answer)) >= 2

\* C3 as stated: when none of the first 5 answers is labelled passing or
\* above and one of them is answered, one of the first 5 is labelled passing
\* or above after enforce_rules.  It is stated here only for the answer sets
\* where that can be achieved inside the answered questions: an answered
\* question among the first 5 offers an option labelled passing or above.
C3_MinimumPassing ==
    ( /\ pc = "returned"
      /\ PassingInWindow(selected) = {}
      /\ InWindow(selected) # {}
      /\ \E i \in InWindow(selected) : \E k \in 1..Len(ChoiceList[i].options) :
            ChoiceList[i].options[k].content \in Passing )
    => PassingInWindow(choice_answer) # {}

\* C4 as stated: a second application of enforce_rules leaves the answer set
\* exactly as the first application left it.
C4_Idempotent ==
    pc = "twice" => raised = "none" /\ choice_answer = once

\* C4 amended: a second application returns and leaves the answer set as the
\* first left it, provided the first application's result does not carry
\* exactly one distinct content label among its answered positions.
C4_IdempotentUnlessUniform ==
    (pc = "twice" /\ Cardinality(SelectedContents(once)) # 1)
    => raised = "none" /\ choice_answer = once

C4_Witness ==
    /\ pc = "twice" /\ raised = "none"
    /\ once # selected
    /\ Cardinality(SelectedContents(once)) >= 2
    /\ choice_answer = once

\* C5: 'worst_passing' returns one entry per choice question, in order:
\* options[2] with at least 3 options, options[-1] with 1 or 2, None with none.
C5_WorstPassing ==
    (pc # "start" /\ method = "worst_passing") =>
        /\ Len(selected) = Len(ChoiceList)
        /\ \A i \in 1..Len(ChoiceList) :
             LET o == ChoiceList[i].options
             IN  selected[i] = IF Len(o) >= 3 THEN o[3]
                               ELSE IF Len(o) >= 1 THEN o[Len(o)]
                               ELSE None

C5_Witness ==
    /\ pc # "start" /\ method = "worst_passing"
    /\ \E i, j, k \in 1..Len(ChoiceList) :
          /\ Len(ChoiceList[i].options) >= 3
          /\ Len(ChoiceList[j].options) \in {1, 2}
          /\ Len(ChoiceList[k].options) = 0

\* The score, in halves, of the option of q whose id is submitted ("" is 0).
SubmittedPts(q, id) ==
    LET S == {k \in 1..Len(q.options) : q.options[k].id = id}
    IN  IF S = {} THEN 0 ELSE q.options[CHOOSE k \in S : TRUE].pts

\* The sum, in halves, of the scores of the options the payload submits.
SubmittedSum ==
    SumSeq([i \in 1..Len(ChoiceList) |->
              SubmittedPts(ChoiceList[i], ret.pjxxlist[i].xxdalist[1])])

\* C6 as stated: pjdf is the floor of the sum of the scores of the options
\* submitted in the payload's choice records.
C6_Floor == pc = "returned" => ret.pjdf = SubmittedSum \div 2

\* C6 amended: pjdf is that sum truncated toward zero (the floor only when
\* the sum is not negative).
C6_Truncated ==
    pc = "returned" =>
        ret.pjdf = IF SubmittedSum >= 0 THEN SubmittedSum \div 2
                   ELSE -((-SubmittedSum) \div 2)

C6_Witness ==
    /\ pc = "returned"
    /\ \E i \in 1..Len(choice_answer) : choice_answer[i] = None
    /\ SubmittedSum < 0
    /\ SubmittedSum % 2 = 1
    /\ ret.pjdf = 0

\* C7 as stated: enforce_rules returns for every position-aligned answer
\* set, and with the first 5 positions unanswered it leaves the set unchanged.
C7_NeverRaises ==
    Enforced => /\ raised = "none"
                /\ InWindow(selected) = {} => choice_answer = selected

\* C8: enforce_rules keeps the length, leaves an unanswered position
\* unanswered and an answered position on an option of its own question.
C8_OwnQuestion ==
    Enforced =>
        /\ Len(choice_answer) = Len(selected)
        /\ \A i \in 1..Len(selected) :
             IF selected[i] = None
             THEN choice_answer[i] = None
             ELSE \E k \in 1..Len(ChoiceList[i].options) :
                     choice_answer[i] = ChoiceList[i].options[k]

C8_Witness ==
    /\ pc = "returned"
    /\ \E i \in 1..Len(selected) : selected[i] = None
    /\ \E i \in 1..Len(selected) : choice_answer[i] # selected[i]

RawIsChoice(entry) == entry.tmlx = "1"
RawIsOther(entry) == entry.tmlx # "1"

\* C9: the payload has one record per parsed question: the choice questions'
\* first, in questionnaire order, the k-th with the k-th choice question's id
\* and the id of the k-th enforced answer ("" if unanswered), then one per
\* other question with the selection "".
C9_Records ==
    pc = "returned" =>
        LET c == SelectSeq(form_info, RawIsChoice)
            o == SelectSeq(form_info, RawIsOther)
            recs == ret.pjxxlist
        IN  /\ Len(recs) = Len(question_list)
            /\ Len(recs) = Len(c) + Len(o)
            /\ Len(choice_answer) = Len(c)
            /\ \A k \in 1..Len(c) :
                 /\ recs[k].wjstid = c[k].tmid
                 /\ recs[k].xxdalist =
                       << IF choice_answer[k] = None THEN EmptyStr
                          ELSE choice_answer[k].id >>
            /\ \A j \in 1..Len(o) :
                 /\ recs[Len(c) + j].wjstid = o[j].tmid
                 /\ recs[Len(c) + j].xxdalist = << EmptyStr >>

C9_Witness ==
    /\ pc = "returned"
    /\ \E i, j \in 1..Len(form_info) :
          i < j /\ RawIsOther(form_info[i]) /\ RawIsChoice(form_info[j])
    /\ \E k \in 1..Len(choice_answer) : choice_answer[k] = None
    /\ \E k \in 1..Len(choice_answer) : choice_answer[k] # selected[k]

\* C10: each parsed option list is a permutation of the question's raw option
\* blocks, in descending order of score, equal scores in their input order.
C10_Sorted ==
    pc # "start" =>
        /\ Len(question_list) = Len(form_info)
        /\ \A i \in 1..Len(form_info) :
             LET raw == form_info[i].tmxxlist
                 opts == question_list[i].options
             IN  /\ Len(opts) = Len(raw)
                 /\ \A k \in 1..Len(raw) : \E p \in 1..Len(opts) :
                      /\ opts[p].id = raw[k].tmxxid
                      /\ opts[p].content = raw[k].xxmc
                      /\ opts[p].pts = Float(raw[k].xxfz)
                 /\ \A p, q \in 1..Len(opts) :
                      p < q => /\ opts[p].pts >= opts[q].pts
                               /\ opts[p].pts = opts[q].pts
                                     => opts[p].id[2] < opts[q].id[2]

C10_Witness ==
    /\ pc # "start"
    /\ \E i \in 1..Len(question_list) :
          \E p, q \in 1..Len(question_list[i].options) :
             /\ p < q
             /\ question_list[i].options[p].pts = question_list[i].options[q].pts
    /\ \E i \in 1..Len(question_list) :
          /\ Len(question_list[i].options) >= 3
          /\ question_list[i].options[1].id # form_info[i].tmxxlist[1].tmxxid

=============================================================================
